---- MODULE Spec2Model ----
(***************************************************************************)
(* SubtleCrypto (src/SubtleCrypto.js): the dispatch and validation layer   *)
(* in front of the algorithm providers.                                    *)
(*                                                                         *)
(* SubtleCrypto keeps no state of its own.  The state of the model is one  *)
(* public call in flight: its arguments, the promise it returned (or the   *)
(* exception it threw), the promises wrapKey chains with .then, and the    *)
(* log of what the call did (normalizations, provider calls, assignments   *)
(* to the imported key, settlements of the returned promise), in order.    *)
(* A call is one action: the Promise executor runs synchronously inside    *)
(* `new Promise`.  wrapKey alone continues in two promise reactions        *)
(* (microtasks), one action each.  Return hands the outcome to the caller  *)
(* and makes room for the next call.                                       *)
(*                                                                         *)
(* Providers are external: every provider call either returns or throws,   *)
(* and what generateKey / importKey return is any key the provider may     *)
(* build.  Key arguments are well-formed CryptoKey objects (usages is an   *)
(* array).                                                                 *)
(***************************************************************************)
EXTENDS Integers, Sequences, FiniteSets, TLC

(* ----------------------------- bounds --------------------------------- *)

\* largest number of usages on a key passed as an argument
MaxUsages == 1

\* longest keyUsages array passed to generateKey / importKey
MaxKeyUsages == 2

(* --------------------------- value domains ---------------------------- *)

\* algorithm names a caller may put in an algorithm descriptor
AlgNames == {"AES-GCM", "RSA-OAEP", "RSASSA-PKCS1-v1_5", "AES-KW", "SHA-256", "NONE"}

\* algorithm names that keys carry in key.algorithm.name
KeyAlgNames == {"AES-GCM", "RSA-OAEP", "RSASSA-PKCS1-v1_5", "AES-KW"}

\* KeyFormat
Formats == {"raw", "pkcs8", "spki", "jwk"}

\* usage names that occur on the keys passed as arguments
UsageNames == {"encrypt", "decrypt", "sign", "verify", "wrapKey"}

\* entries of a caller's keyUsages array ("bogus" is not a recognized usage)
KeyUsageNames == {"encrypt", "bogus"}

KeyTypes == {"secret", "private", "public"}

\* a provider call returns or throws
ProviderOutcomes == {"return", "throw"}

(* ------------------------------ errors -------------------------------- *)

\* an Error object: its class and the place that constructed it
Err(name, fn, what) == [kind |-> "error", name |-> name, src |-> <<fn, what>>]

\* NotSupportedError: the spec's UnsupportedAlgorithmError
NotSupportedError(fn, what) == Err("NotSupportedError", fn, what)

\* InvalidAccessError: the spec's AccessViolationError
InvalidAccessError(fn, what) == Err("InvalidAccessError", fn, what)

\* SyntaxError: the spec's EmptyUsageError
EmptyUsageError(fn) == Err("SyntaxError", fn, "usages")

\* TypeError: the spec's MalformedInputError
MalformedInputError(fn, what) == Err("TypeError", fn, what)

\* whatever a provider method throws
ProviderError(method) == Err("ProviderError", "provider", method)

IsError(v) == v.kind = "error"

\* an opaque value a provider method returned
ProviderValue(method) == [kind |-> "value", name |-> "bytes", src |-> <<"provider", method>>]

Undefined == [kind |-> "undefined"]

(* ----------------------------- promises ------------------------------- *)

NoPromise == [state |-> "none", value |-> Undefined]
Pending == [state |-> "pending", value |-> Undefined]
Resolved(v) == [state |-> "resolved", value |-> v]
Rejected(e) == [state |-> "rejected", value |-> e]

\* resolve(v) / reject(e) of a promise that may be settled already
DoResolve(p, v) == IF p.state = "pending" THEN Resolved(v) ELSE p
DoReject(p, e) == IF p.state = "pending" THEN Rejected(e) ELSE p

(* ------------------------------- log ---------------------------------- *)

\* one step of a call: a normalization (what = the operation name), a provider
\* call (what = the method, arg = what it was given), an assignment to a field
\* of the imported key, resolve / reject of the returned promise (ok = it took
\* effect), resolve / reject of the promise of the exportKey inside wrapKey
Ev(e, what, ok, arg) == [e |-> e, what |-> what, ok |-> ok, arg |-> arg]
EvNormalize(op, ok) == Ev("normalize", op, ok, "-")
EvProvider(method, out, arg) == Ev("provider", method, out = "return", arg)
EvAssign(field) == Ev("assign", field, TRUE, "-")
EvResolve(ok) == Ev("resolve", "returned", ok, "-")
EvReject(ok) == Ev("reject", "returned", ok, "-")

\* the outcome of the synchronous part of a call
Out(promise, log) == [promise |-> promise, log |-> log, thrown |-> Undefined]

\* a call that throws to its caller instead of returning a promise
Throws(e) == [promise |-> NoPromise, log |-> <<>>, thrown |-> e]

(* ------------------------------- keys --------------------------------- *)

\* a CryptoKey; hasUsages = FALSE is a key whose usages property is missing
CryptoKey(type, extractable, algorithm, usages, hasUsages) ==
  [type |-> type, extractable |-> extractable, algorithm |-> algorithm,
   usages |-> usages, hasUsages |-> hasUsages]

NoKey == CryptoKey("-", FALSE, "-", {}, FALSE)

UsageSets == {u \in SUBSET UsageNames : Cardinality(u) <= MaxUsages}

\* the type of the keys of an algorithm, as passed by callers
ArgKeyType(algorithm) ==
  IF algorithm \in {"RSA-OAEP", "RSASSA-PKCS1-v1_5"} THEN "private" ELSE "secret"

\* the keys callers pass as key / wrappingKey
ArgKeys ==
  { CryptoKey(ArgKeyType(a), x, a, u, TRUE) :
      x \in BOOLEAN, a \in KeyAlgNames, u \in UsageSets }

\* the keys callers pass to be exported or wrapped
KeysToExport == {k \in ArgKeys : k.usages \subseteq {"sign"}}

\* a BufferSource; slice() returns an independent copy
CallerData == [kind |-> "buffer", owner |-> "caller"]
slice(data) == [data EXCEPT !.owner = "copy"]

(* --------------------------- the registry ----------------------------- *)

\* supportedAlgorithms[op]: the algorithm names registered for an operation
supportedAlgorithms(op) ==
  CASE op = "encrypt"     -> {"AES-GCM", "RSA-OAEP"}
    [] op = "decrypt"     -> {"AES-GCM", "RSA-OAEP"}
    [] op = "sign"        -> {"RSASSA-PKCS1-v1_5"}
    [] op = "verify"      -> {"RSASSA-PKCS1-v1_5"}
    [] op = "digest"      -> {"SHA-256"}
    [] op = "generateKey" -> {"AES-GCM", "RSA-OAEP", "RSASSA-PKCS1-v1_5", "AES-KW"}
    [] op = "importKey"   -> {"AES-GCM", "RSA-OAEP", "RSASSA-PKCS1-v1_5", "AES-KW"}
    [] op = "exportKey"   -> {"AES-GCM", "RSA-OAEP", "RSASSA-PKCS1-v1_5"}
    [] op = "wrapKey"     -> {"RSA-OAEP", "AES-KW"}
    [] OTHER              -> {}

\* the methods a normalized algorithm object has; "AES-KW" is registered for
\* wrapKey by a provider that implements neither wrapKey nor encrypt
Methods(name) ==
  CASE name = "AES-GCM"  -> {"encrypt", "decrypt", "generateKey", "importKey", "exportKey"}
    [] name = "RSA-OAEP" -> {"encrypt", "decrypt", "wrapKey", "generateKey", "importKey", "exportKey"}
    [] name = "RSASSA-PKCS1-v1_5" -> {"sign", "verify", "generateKey", "importKey", "exportKey"}
    [] name = "AES-KW"   -> {"generateKey", "importKey"}
    [] name = "SHA-256"  -> {"digest"}
    [] OTHER             -> {}

\* supportedAlgorithms.normalize(op, algorithm): the normalized algorithm of
\* the provider registered for (op, algorithm.name), or a NotSupportedError
normalize(op, algorithm) ==
  IF algorithm \in supportedAlgorithms(op)
  THEN [kind |-> "algorithm", name |-> algorithm, src |-> <<"normalize", op>>]
  ELSE NotSupportedError("normalize", op)

(* ------------------- encrypt, decrypt, sign, verify ------------------- *)

\* encrypt that checks the key's usages before the algorithm names
encrypt_UsageFirst(algorithm, key, data, out) ==
  LET copy == slice(data)
      normalizedAlgorithm == normalize("encrypt", algorithm)
  IN  IF IsError(normalizedAlgorithm)
      THEN Out(Rejected(normalizedAlgorithm),
               <<EvNormalize("encrypt", FALSE), EvReject(TRUE)>>)
      ELSE IF "encrypt" \notin key.usages
      THEN Out(Rejected(InvalidAccessError("encrypt", "usages")),
               <<EvNormalize("encrypt", TRUE), EvReject(TRUE)>>)
      ELSE IF normalizedAlgorithm.name # key.algorithm
      THEN Out(Rejected(InvalidAccessError("encrypt", "algorithm")),
               <<EvNormalize("encrypt", TRUE), EvReject(TRUE)>>)
      ELSE IF out = "throw"
      THEN Out(Rejected(ProviderError("encrypt")),
               <<EvNormalize("encrypt", TRUE),
                 EvProvider("encrypt", out, copy.owner), EvReject(TRUE)>>)
      ELSE Out(Resolved(ProviderValue("encrypt")),
               <<EvNormalize("encrypt", TRUE),
                 EvProvider("encrypt", out, copy.owner), EvResolve(TRUE)>>)

\* SubtleCrypto.encrypt; out is what the provider's encrypt does if called
encrypt(algorithm, key, data, out) ==
  LET copy == slice(data)
      normalizedAlgorithm == normalize("encrypt", algorithm)
  IN  IF IsError(normalizedAlgorithm)
      THEN Out(Rejected(normalizedAlgorithm),
               <<EvNormalize("encrypt", FALSE), EvReject(TRUE)>>)
      ELSE IF normalizedAlgorithm.name # key.algorithm
      THEN Out(Rejected(InvalidAccessError("encrypt", "algorithm")),
               <<EvNormalize("encrypt", TRUE), EvReject(TRUE)>>)
      ELSE IF "encrypt" \notin key.usages
      THEN Out(Rejected(InvalidAccessError("encrypt", "usages")),
               <<EvNormalize("encrypt", TRUE), EvReject(TRUE)>>)
      ELSE IF out = "throw"
      THEN Out(Rejected(ProviderError("encrypt")),
               <<EvNormalize("encrypt", TRUE),
                 EvProvider("encrypt", out, copy.owner), EvReject(TRUE)>>)
      ELSE Out(Resolved(ProviderValue("encrypt")),
               <<EvNormalize("encrypt", TRUE),
                 EvProvider("encrypt", out, copy.owner), EvResolve(TRUE)>>)

\* decrypt without the check of the key's usages
decrypt_NoUsageCheck(algorithm, key, data, out) ==
  LET normalizedAlgorithm == normalize("decrypt", algorithm)
      copy == slice(data)
  IN  IF IsError(normalizedAlgorithm)
      THEN Out(Rejected(normalizedAlgorithm),
               <<EvNormalize("decrypt", FALSE), EvReject(TRUE)>>)
      ELSE IF normalizedAlgorithm.name # key.algorithm
      THEN Out(Rejected(InvalidAccessError("decrypt", "algorithm")),
               <<EvNormalize("decrypt", TRUE), EvReject(TRUE)>>)
      ELSE IF out = "throw"
      THEN Out(Rejected(ProviderError("decrypt")),
               <<EvNormalize("decrypt", TRUE),
                 EvProvider("decrypt", out, copy.owner), EvReject(TRUE)>>)
      ELSE Out(Resolved(ProviderValue("decrypt")),
               <<EvNormalize("decrypt", TRUE),
                 EvProvider("decrypt", out, copy.owner), EvResolve(TRUE)>>)

\* SubtleCrypto.decrypt
decrypt(algorithm, key, data, out) ==
  LET normalizedAlgorithm == normalize("decrypt", algorithm)
      copy == slice(data)
  IN  IF IsError(normalizedAlgorithm)
      THEN Out(Rejected(normalizedAlgorithm),
               <<EvNormalize("decrypt", FALSE), EvReject(TRUE)>>)
      ELSE IF normalizedAlgorithm.name # key.algorithm
      THEN Out(Rejected(InvalidAccessError("decrypt", "algorithm")),
               <<EvNormalize("decrypt", TRUE), EvReject(TRUE)>>)
      ELSE IF "decrypt" \notin key.usages
      THEN Out(Rejected(InvalidAccessError("decrypt", "usages")),
               <<EvNormalize("decrypt", TRUE), EvReject(TRUE)>>)
      ELSE IF out = "throw"
      THEN Out(Rejected(ProviderError("decrypt")),
               <<EvNormalize("decrypt", TRUE),
                 EvProvider("decrypt", out, copy.owner), EvReject(TRUE)>>)
      ELSE Out(Resolved(ProviderValue("decrypt")),
               <<EvNormalize("decrypt", TRUE),
                 EvProvider("decrypt", out, copy.owner), EvResolve(TRUE)>>)

\* SubtleCrypto.sign
sign(algorithm, key, data, out) ==
  LET copy == slice(data)
      normalizedAlgorithm == normalize("sign", algorithm)
  IN  IF IsError(normalizedAlgorithm)
      THEN Out(Rejected(normalizedAlgorithm),
               <<EvNormalize("sign", FALSE), EvReject(TRUE)>>)
      ELSE IF normalizedAlgorithm.name # key.algorithm
      THEN Out(Rejected(InvalidAccessError("sign", "algorithm")),
               <<EvNormalize("sign", TRUE), EvReject(TRUE)>>)
      ELSE IF "sign" \notin key.usages
      THEN Out(Rejected(InvalidAccessError("sign", "usages")),
               <<EvNormalize("sign", TRUE), EvReject(TRUE)>>)
      ELSE IF out = "throw"
      THEN Out(Rejected(ProviderError("sign")),
               <<EvNormalize("sign", TRUE),
                 EvProvider("sign", out, copy.owner), EvReject(TRUE)>>)
      ELSE Out(Resolved(ProviderValue("sign")),
               <<EvNormalize("sign", TRUE),
                 EvProvider("sign", out, copy.owner), EvResolve(TRUE)>>)

\* verify without the comparison of the algorithm names
verify_NoAlgorithmCheck(alg, key, signature, data, out) ==
  LET normalizedAlgorithm == normalize("verify", alg)
      copy == slice(data)
  IN  IF IsError(normalizedAlgorithm)
      THEN Out(Rejected(normalizedAlgorithm),
               <<EvNormalize("verify", FALSE), EvReject(TRUE)>>)
      ELSE IF "verify" \notin key.usages
      THEN Out(Rejected(InvalidAccessError("verify", "usages")),
               <<EvNormalize("verify", TRUE), EvReject(TRUE)>>)
      ELSE IF out = "throw"
      THEN Out(Rejected(ProviderError("verify")),
               <<EvNormalize("verify", TRUE),
                 EvProvider("verify", out, copy.owner), EvReject(TRUE)>>)
      ELSE Out(Resolved(ProviderValue("verify")),
               <<EvNormalize("verify", TRUE),
                 EvProvider("verify", out, copy.owner), EvResolve(TRUE)>>)

\* SubtleCrypto.verify
verify(alg, key, signature, data, out) ==
  LET sigCopy == slice(signature)
      normalizedAlgorithm == normalize("verify", alg)
      copy == slice(data)
  IN  IF IsError(normalizedAlgorithm)
      THEN Out(Rejected(normalizedAlgorithm),
               <<EvNormalize("verify", FALSE), EvReject(TRUE)>>)
      ELSE IF normalizedAlgorithm.name # key.algorithm
      THEN Out(Rejected(InvalidAccessError("verify", "algorithm")),
               <<EvNormalize("verify", TRUE), EvReject(TRUE)>>)
      ELSE IF "verify" \notin key.usages
      THEN Out(Rejected(InvalidAccessError("verify", "usages")),
               <<EvNormalize("verify", TRUE), EvReject(TRUE)>>)
      ELSE IF out = "throw"
      THEN Out(Rejected(ProviderError("verify")),
               <<EvNormalize("verify", TRUE),
                 EvProvider("verify", out, copy.owner), EvReject(TRUE)>>)
      ELSE Out(Resolved(ProviderValue("verify")),
               <<EvNormalize("verify", TRUE),
                 EvProvider("verify", out, copy.owner), EvResolve(TRUE)>>)

\* SubtleCrypto.digest
digest(algorithm, data, out) ==
  LET copy == slice(data)
      normalizedAlgorithm == normalize("digest", algorithm)
  IN  IF IsError(normalizedAlgorithm)
      THEN Out(Rejected(normalizedAlgorithm),
               <<EvNormalize("digest", FALSE), EvReject(TRUE)>>)
      ELSE IF out = "throw"
      THEN Out(Rejected(ProviderError("digest")),
               <<EvNormalize("digest", TRUE),
                 EvProvider("digest", out, copy.owner), EvReject(TRUE)>>)
      ELSE Out(Resolved(ProviderValue("digest")),
               <<EvNormalize("digest", TRUE),
                 EvProvider("digest", out, copy.owner), EvResolve(TRUE)>>)

(* ---------------------------- generateKey ----------------------------- *)

Range(seq) == {seq[i] : i \in DOMAIN seq}

\* the keyUsages arrays callers pass
KeyUsageArrays == UNION {[1..n -> KeyUsageNames] : n \in 0..MaxKeyUsages}

\* recognizedKeyUsages: the usage names the library recognizes
recognizedKeyUsages ==
  {"encrypt", "decrypt", "sign", "verify", "deriveKey", "deriveBits", "wrapKey", "unwrapKey"}

\* recognizedKeyUsages.normalize(keyUsages): the recognized entries, once each
normalizeUsages(keyUsages) == Range(keyUsages) \cap recognizedKeyUsages

\* the usages a provider may put on the key it builds, as <<usages, hasUsages>>:
\* none at all, an empty array, the caller's array as given, or usages of the
\* provider's own choosing
ProviderUsages(keyUsages) ==
  { <<{}, FALSE>>, <<{}, TRUE>>, <<Range(keyUsages), TRUE>>, <<{"sign"}, TRUE>> }

\* the keys a provider may build for an algorithm
ProviderKeys(types, name, keyUsages) ==
  { CryptoKey(t, x, name, u[1], u[2]) :
      t \in types, x \in BOOLEAN, u \in ProviderUsages(keyUsages) }

ThrowResult == [kind |-> "throw"]
KeyResult(key) == [kind |-> "CryptoKey", key |-> key]
PairResult(publicKey, privateKey) ==
  [kind |-> "CryptoKeyPair", publicKey |-> publicKey, privateKey |-> privateKey]

\* what a provider's generateKey may do: throw, return a CryptoKey, or return
\* a CryptoKeyPair
GenerateResults(name, extractable, keyUsages) ==
  {ThrowResult}
  \cup { KeyResult(k) : k \in ProviderKeys(KeyTypes, name, keyUsages) }
  \cup { PairResult(CryptoKey("public", TRUE, name, pu[1], pu[2]),
                    CryptoKey("private", extractable, name, pr[1], pr[2])) :
           pu \in {<<{}, TRUE>>, <<{"verify"}, TRUE>>},
           pr \in ProviderUsages(keyUsages) }

\* !usages || usages.length === 0
emptyUsages(key) == ~key.hasUsages \/ key.usages = {}

OutcomeOf(result) == IF result.kind = "throw" THEN "throw" ELSE "return"

\* generateKey that requires usages on the public key of a pair as well
generateKey_ChecksPublicKey(algorithm, extractable, keyUsages, result) ==
  LET normalizedAlgorithm == normalize("generateKey", algorithm)
      called == <<EvNormalize("generateKey", TRUE),
                  EvProvider("generateKey", OutcomeOf(result), "-")>>
  IN  IF IsError(normalizedAlgorithm)
      THEN Out(Rejected(normalizedAlgorithm),
               <<EvNormalize("generateKey", FALSE), EvReject(TRUE)>>)
      ELSE IF result.kind = "throw"
      THEN Out(Rejected(ProviderError("generateKey")), called \o <<EvReject(TRUE)>>)
      ELSE IF /\ result.kind = "CryptoKey"
              /\ result.key.type \in {"secret", "private"}
              /\ emptyUsages(result.key)
      THEN Out(Rejected(EmptyUsageError("generateKey")), called \o <<EvReject(TRUE)>>)
      ELSE IF /\ result.kind = "CryptoKeyPair"
              /\ (emptyUsages(result.privateKey) \/ emptyUsages(result.publicKey))
      THEN Out(Rejected(EmptyUsageError("generateKey")), called \o <<EvReject(TRUE)>>)
      ELSE Out(Resolved(result), called \o <<EvResolve(TRUE)>>)

\* SubtleCrypto.generateKey; result is what the provider's generateKey does
generateKey(algorithm, extractable, keyUsages, result) ==
  LET normalizedAlgorithm == normalize("generateKey", algorithm)
      called == <<EvNormalize("generateKey", TRUE),
                  EvProvider("generateKey", OutcomeOf(result), "-")>>
  IN  IF IsError(normalizedAlgorithm)
      THEN Out(Rejected(normalizedAlgorithm),
               <<EvNormalize("generateKey", FALSE), EvReject(TRUE)>>)
      ELSE IF result.kind = "throw"
      THEN Out(Rejected(ProviderError("generateKey")), called \o <<EvReject(TRUE)>>)
      ELSE IF /\ result.kind = "CryptoKey"
              /\ result.key.type \in {"secret", "private"}
              /\ emptyUsages(result.key)
      THEN Out(Rejected(EmptyUsageError("generateKey")), called \o <<EvReject(TRUE)>>)
      ELSE IF /\ result.kind = "CryptoKeyPair"
              /\ emptyUsages(result.privateKey)
      THEN Out(Rejected(EmptyUsageError("generateKey")), called \o <<EvReject(TRUE)>>)
      ELSE Out(Resolved(result), called \o <<EvResolve(TRUE)>>)

(* ----------------------------- importKey ------------------------------ *)

\* what a caller passes as keyData: bytes, a JsonWebKey instance, a plain
\* object that is a well-formed JWK, a plain object that is not
KeyDataShapes == {"bytes", "JsonWebKey", "jwkObject", "badObject"}

\* how the JsonWebKey constructor fails on data that is no JWK
Coercions == {"throw", "notInstance"}

\* new JsonWebKey(keyData): the interchange record, or a failure on data of
\* invalid shape: the constructor throws, or what it returns is no JsonWebKey
JsonWebKey(keyData, coerce) ==
  IF keyData \in {"JsonWebKey", "jwkObject"}
  THEN [kind |-> "JsonWebKey"]
  ELSE IF coerce = "throw"
  THEN MalformedInputError("JsonWebKey", "constructor")
  ELSE [kind |-> "object"]

\* what a provider's importKey may do: throw or return a CryptoKey
ImportResults(name, keyUsages) ==
  {ThrowResult} \cup { KeyResult(k) : k \in ProviderKeys(KeyTypes, name, keyUsages) }

\* importKey without the instanceof check on the coerced key data
importKey_NoInstanceCheck(format, keyData, algorithm, extractable, keyUsages, coerce, result) ==
  LET normalizedAlgorithm == normalize("importKey", algorithm)
      normalized == <<EvNormalize("importKey", TRUE)>>
      jwk == JsonWebKey(keyData, coerce)
      passed == IF format = "jwk" THEN "JsonWebKey" ELSE slice(CallerData).owner
      called == normalized \o <<EvProvider("importKey", OutcomeOf(result), passed)>>
  IN  IF IsError(normalizedAlgorithm)
      THEN Out(Rejected(normalizedAlgorithm),
               <<EvNormalize("importKey", FALSE), EvReject(TRUE)>>)
      ELSE IF format \in {"raw", "pkcs8", "spki"} /\ keyData = "JsonWebKey"
      THEN Out(Rejected(MalformedInputError("importKey", "format")),
               normalized \o <<EvReject(TRUE)>>)
      ELSE IF format \in {"raw", "pkcs8", "spki"} /\ keyData # "bytes"
      THEN Out(Rejected(MalformedInputError("importKey", "slice")),
               normalized \o <<EvReject(TRUE)>>)
      ELSE IF format = "jwk" /\ IsError(jwk)
      THEN Out(Rejected(jwk), normalized \o <<EvReject(TRUE)>>)
      ELSE IF result.kind = "throw"
      THEN Out(Rejected(ProviderError("importKey")), called \o <<EvReject(TRUE)>>)
      ELSE IF /\ result.key.type \in {"secret", "private"}
              /\ emptyUsages(result.key)
      THEN Out(Rejected(EmptyUsageError("importKey")), called \o <<EvReject(TRUE)>>)
      ELSE Out(Resolved(KeyResult(
                 [result.key EXCEPT !.extractable = extractable,
                                    !.usages = normalizeUsages(keyUsages),
                                    !.hasUsages = TRUE])),
               called \o <<EvAssign("extractable"), EvAssign("usages"), EvResolve(TRUE)>>)

\* importKey that leaves the extractable the provider set
importKey_KeepsProviderExtractable(format, keyData, algorithm, extractable, keyUsages, coerce, result) ==
  LET normalizedAlgorithm == normalize("importKey", algorithm)
      normalized == <<EvNormalize("importKey", TRUE)>>
      jwk == JsonWebKey(keyData, coerce)
      passed == IF format = "jwk" THEN "JsonWebKey" ELSE slice(CallerData).owner
      called == normalized \o <<EvProvider("importKey", OutcomeOf(result), passed)>>
  IN  IF IsError(normalizedAlgorithm)
      THEN Out(Rejected(normalizedAlgorithm),
               <<EvNormalize("importKey", FALSE), EvReject(TRUE)>>)
      ELSE IF format \in {"raw", "pkcs8", "spki"} /\ keyData = "JsonWebKey"
      THEN Out(Rejected(MalformedInputError("importKey", "format")),
               normalized \o <<EvReject(TRUE)>>)
      ELSE IF format \in {"raw", "pkcs8", "spki"} /\ keyData # "bytes"
      THEN Out(Rejected(MalformedInputError("importKey", "slice")),
               normalized \o <<EvReject(TRUE)>>)
      ELSE IF format = "jwk" /\ IsError(jwk)
      THEN Out(Rejected(jwk), normalized \o <<EvReject(TRUE)>>)
      ELSE IF format = "jwk" /\ jwk.kind # "JsonWebKey"
      THEN Out(Rejected(MalformedInputError("importKey", "jwk")),
               normalized \o <<EvReject(TRUE)>>)
      ELSE IF result.kind = "throw"
      THEN Out(Rejected(ProviderError("importKey")), called \o <<EvReject(TRUE)>>)
      ELSE IF /\ result.key.type \in {"secret", "private"}
              /\ emptyUsages(result.key)
      THEN Out(Rejected(EmptyUsageError("importKey")), called \o <<EvReject(TRUE)>>)
      ELSE Out(Resolved(KeyResult(
                 [result.key EXCEPT !.usages = normalizeUsages(keyUsages),
                                    !.hasUsages = TRUE])),
               called \o <<EvAssign("usages"), EvResolve(TRUE)>>)

\* importKey that hands the caller's own bytes to the provider
importKey_NoCopy(format, keyData, algorithm, extractable, keyUsages, coerce, result) ==
  LET normalizedAlgorithm == normalize("importKey", algorithm)
      normalized == <<EvNormalize("importKey", TRUE)>>
      jwk == JsonWebKey(keyData, coerce)
      passed == IF format = "jwk" THEN "JsonWebKey" ELSE CallerData.owner
      called == normalized \o <<EvProvider("importKey", OutcomeOf(result), passed)>>
  IN  IF IsError(normalizedAlgorithm)
      THEN Out(Rejected(normalizedAlgorithm),
               <<EvNormalize("importKey", FALSE), EvReject(TRUE)>>)
      ELSE IF format \in {"raw", "pkcs8", "spki"} /\ keyData = "JsonWebKey"
      THEN Out(Rejected(MalformedInputError("importKey", "format")),
               normalized \o <<EvReject(TRUE)>>)
      ELSE IF format \in {"raw", "pkcs8", "spki"} /\ keyData # "bytes"
      THEN Out(Rejected(MalformedInputError("importKey", "slice")),
               normalized \o <<EvReject(TRUE)>>)
      ELSE IF format = "jwk" /\ IsError(jwk)
      THEN Out(Rejected(jwk), normalized \o <<EvReject(TRUE)>>)
      ELSE IF format = "jwk" /\ jwk.kind # "JsonWebKey"
      THEN Out(Rejected(MalformedInputError("importKey", "jwk")),
               normalized \o <<EvReject(TRUE)>>)
      ELSE IF result.kind = "throw"
      THEN Out(Rejected(ProviderError("importKey")), called \o <<EvReject(TRUE)>>)
      ELSE IF /\ result.key.type \in {"secret", "private"}
              /\ emptyUsages(result.key)
      THEN Out(Rejected(EmptyUsageError("importKey")), called \o <<EvReject(TRUE)>>)
      ELSE Out(Resolved(KeyResult(
                 [result.key EXCEPT !.extractable = extractable,
                                    !.usages = normalizeUsages(keyUsages),
                                    !.hasUsages = TRUE])),
               called \o <<EvAssign("extractable"), EvAssign("usages"), EvResolve(TRUE)>>)

\* importKey that assigns extractable and usages before it tests the usages
importKey_AssignsFirst(format, keyData, algorithm, extractable, keyUsages, coerce, result) ==
  LET normalizedAlgorithm == normalize("importKey", algorithm)
      normalized == <<EvNormalize("importKey", TRUE)>>
      jwk == JsonWebKey(keyData, coerce)
      passed == IF format = "jwk" THEN "JsonWebKey" ELSE slice(CallerData).owner
      called == normalized \o <<EvProvider("importKey", OutcomeOf(result), passed)>>
  IN  IF IsError(normalizedAlgorithm)
      THEN Out(Rejected(normalizedAlgorithm),
               <<EvNormalize("importKey", FALSE), EvReject(TRUE)>>)
      ELSE IF format \in {"raw", "pkcs8", "spki"} /\ keyData = "JsonWebKey"
      THEN Out(Rejected(MalformedInputError("importKey", "format")),
               normalized \o <<EvReject(TRUE)>>)
      ELSE IF format \in {"raw", "pkcs8", "spki"} /\ keyData # "bytes"
      THEN Out(Rejected(MalformedInputError("importKey", "slice")),
               normalized \o <<EvReject(TRUE)>>)
      ELSE IF format = "jwk" /\ IsError(jwk)
      THEN Out(Rejected(jwk), normalized \o <<EvReject(TRUE)>>)
      ELSE IF format = "jwk" /\ jwk.kind # "JsonWebKey"
      THEN Out(Rejected(MalformedInputError("importKey", "jwk")),
               normalized \o <<EvReject(TRUE)>>)
      ELSE IF result.kind = "throw"
      THEN Out(Rejected(ProviderError("importKey")), called \o <<EvReject(TRUE)>>)
      ELSE IF /\ result.key.type \in {"secret", "private"}
              /\ emptyUsages(result.key)
      THEN Out(Rejected(EmptyUsageError("importKey")),
               called \o <<EvAssign("extractable"), EvAssign("usages"), EvReject(TRUE)>>)
      ELSE Out(Resolved(KeyResult(
                 [result.key EXCEPT !.extractable = extractable,
                                    !.usages = normalizeUsages(keyUsages),
                                    !.hasUsages = TRUE])),
               called \o <<EvAssign("extractable"), EvAssign("usages"), EvResolve(TRUE)>>)

\* SubtleCrypto.importKey; result is what the provider's importKey does
importKey(format, keyData, algorithm, extractable, keyUsages, coerce, result) ==
  LET normalizedAlgorithm == normalize("importKey", algorithm)
      normalized == <<EvNormalize("importKey", TRUE)>>
      jwk == JsonWebKey(keyData, coerce)
      passed == IF format = "jwk" THEN "JsonWebKey" ELSE slice(CallerData).owner
      called == normalized \o <<EvProvider("importKey", OutcomeOf(result), passed)>>
  IN  IF IsError(normalizedAlgorithm)
      THEN Out(Rejected(normalizedAlgorithm),
               <<EvNormalize("importKey", FALSE), EvReject(TRUE)>>)
      ELSE IF format \in {"raw", "pkcs8", "spki"} /\ keyData = "JsonWebKey"
      THEN Out(Rejected(MalformedInputError("importKey", "format")),
               normalized \o <<EvReject(TRUE)>>)
      ELSE IF format \in {"raw", "pkcs8", "spki"} /\ keyData # "bytes"
      THEN \* keyData.slice is not a function
           Out(Rejected(MalformedInputError("importKey", "slice")),
               normalized \o <<EvReject(TRUE)>>)
      ELSE IF format = "jwk" /\ IsError(jwk)
      THEN Out(Rejected(jwk), normalized \o <<EvReject(TRUE)>>)
      ELSE IF format = "jwk" /\ jwk.kind # "JsonWebKey"
      THEN Out(Rejected(MalformedInputError("importKey", "jwk")),
               normalized \o <<EvReject(TRUE)>>)
      ELSE IF result.kind = "throw"
      THEN Out(Rejected(ProviderError("importKey")), called \o <<EvReject(TRUE)>>)
      ELSE IF /\ result.key.type \in {"secret", "private"}
              /\ emptyUsages(result.key)
      THEN Out(Rejected(EmptyUsageError("importKey")), called \o <<EvReject(TRUE)>>)
      ELSE Out(Resolved(KeyResult(
                 [result.key EXCEPT !.extractable = extractable,
                                    !.usages = normalizeUsages(keyUsages),
                                    !.hasUsages = TRUE])),
               called \o <<EvAssign("extractable"), EvAssign("usages"), EvResolve(TRUE)>>)

(* ----------------------------- exportKey ------------------------------ *)

\* what the provider's exportKey returns for a format
Exported(format) ==
  [kind |-> "value", name |-> IF format = "jwk" THEN "jwk" ELSE "bytes",
   src |-> <<"provider", "exportKey">>]

\* exportKey without the lookup of the key's algorithm in the registry
exportKey_NoRegistryCheck(format, key, out) ==
  IF key.extractable = FALSE
  THEN Out(Rejected(InvalidAccessError("exportKey", "extractable")), <<EvReject(TRUE)>>)
  ELSE IF out = "throw"
  THEN Out(Rejected(ProviderError("exportKey")),
           <<EvProvider("exportKey", out, "-"), EvReject(TRUE)>>)
  ELSE Out(Resolved(Exported(format)),
           <<EvProvider("exportKey", out, "-"), EvResolve(TRUE)>>)

\* exportKey without the check of key.extractable
exportKey_NoExtractableCheck(format, key, out) ==
  IF key.algorithm \notin supportedAlgorithms("exportKey")
  THEN Out(Rejected(NotSupportedError("exportKey", "algorithm")), <<EvReject(TRUE)>>)
  ELSE IF out = "throw"
  THEN Out(Rejected(ProviderError("exportKey")),
           <<EvProvider("exportKey", out, "-"), EvReject(TRUE)>>)
  ELSE Out(Resolved(Exported(format)),
           <<EvProvider("exportKey", out, "-"), EvResolve(TRUE)>>)

\* exportKey that calls the provider's export before it tests key.extractable
exportKey_ExportsFirst(format, key, out) ==
  IF key.algorithm \notin supportedAlgorithms("exportKey")
  THEN Out(Rejected(NotSupportedError("exportKey", "algorithm")), <<EvReject(TRUE)>>)
  ELSE IF out = "throw"
  THEN Out(Rejected(ProviderError("exportKey")),
           <<EvProvider("exportKey", out, "-"), EvReject(TRUE)>>)
  ELSE IF key.extractable = FALSE
  THEN Out(Rejected(InvalidAccessError("exportKey", "extractable")),
           <<EvProvider("exportKey", out, "-"), EvReject(TRUE)>>)
  ELSE Out(Resolved(Exported(format)),
           <<EvProvider("exportKey", out, "-"), EvResolve(TRUE)>>)

\* SubtleCrypto.exportKey; out is what the provider's exportKey does if called
exportKey(format, key, out) ==
  IF key.algorithm \notin supportedAlgorithms("exportKey")
  THEN Out(Rejected(NotSupportedError("exportKey", "algorithm")), <<EvReject(TRUE)>>)
  ELSE IF key.extractable = FALSE
  THEN Out(Rejected(InvalidAccessError("exportKey", "extractable")), <<EvReject(TRUE)>>)
  ELSE IF out = "throw"
  THEN Out(Rejected(ProviderError("exportKey")),
           <<EvProvider("exportKey", out, "-"), EvReject(TRUE)>>)
  ELSE Out(Resolved(Exported(format)),
           <<EvProvider("exportKey", out, "-"), EvResolve(TRUE)>>)

(* ------------------------------ wrapKey ------------------------------- *)

\* the events of the exportKey that wrapKey calls, as seen from wrapKey: its
\* resolve / reject settle the promise exportKey returned, not wrapKey's
Inner(log) ==
  [i \in DOMAIN log |->
     IF log[i].e \in {"resolve", "reject"} THEN [log[i] EXCEPT !.what = "exported"]
     ELSE log[i]]

\* the outcome of the synchronous part of wrapKey: the returned promise, the
\* promise of this.exportKey(format, key) and the normalized algorithm that the
\* reactions close over
WrapOut(promise, log, exported, normalizedAlgorithm) ==
  [promise |-> promise, log |-> log, thrown |-> Undefined,
   exported |-> exported, normalizedAlgorithm |-> normalizedAlgorithm]

\* wrapKey without the check of the wrapping key's usages
wrapKey_NoUsageCheck(format, key, wrappingKey, wrapAlgorithm, out) ==
  LET first == normalize("wrapKey", wrapAlgorithm)
      normalizedAlgorithm ==
        IF IsError(first) THEN normalize("encrypt", wrapAlgorithm) ELSE first
      normalized ==
        IF IsError(first)
        THEN <<EvNormalize("wrapKey", FALSE),
               EvNormalize("encrypt", ~IsError(normalizedAlgorithm))>>
        ELSE <<EvNormalize("wrapKey", TRUE)>>
      export == exportKey(format, key, out)
  IN  IF IsError(normalizedAlgorithm)
      THEN WrapOut(Rejected(normalizedAlgorithm), normalized \o <<EvReject(TRUE)>>,
                   NoPromise, Undefined)
      ELSE IF normalizedAlgorithm.name # wrappingKey.algorithm
      THEN WrapOut(Rejected(InvalidAccessError("wrapKey", "algorithm")),
                   normalized \o <<EvReject(TRUE)>>, NoPromise, normalizedAlgorithm)
      ELSE IF key.algorithm \notin supportedAlgorithms("exportKey")
      THEN WrapOut(Rejected(NotSupportedError("wrapKey", "exportKey")),
                   normalized \o <<EvReject(TRUE)>>, NoPromise, normalizedAlgorithm)
      ELSE IF key.extractable = FALSE
      THEN WrapOut(Rejected(InvalidAccessError("wrapKey", "extractable")),
                   normalized \o <<EvReject(TRUE)>>, NoPromise, normalizedAlgorithm)
      ELSE WrapOut(Pending, normalized \o Inner(export.log),
                   export.promise, normalizedAlgorithm)

\* wrapKey that normalizes for encrypt whether or not wrapKey is registered
wrapKey_AlwaysRetries(format, key, wrappingKey, wrapAlgorithm, out) ==
  LET first == normalize("wrapKey", wrapAlgorithm)
      normalizedAlgorithm == normalize("encrypt", wrapAlgorithm)
      normalized ==
        <<EvNormalize("wrapKey", ~IsError(first)),
          EvNormalize("encrypt", ~IsError(normalizedAlgorithm))>>
      export == exportKey(format, key, out)
  IN  IF IsError(normalizedAlgorithm)
      THEN WrapOut(Rejected(normalizedAlgorithm), normalized \o <<EvReject(TRUE)>>,
                   NoPromise, Undefined)
      ELSE IF normalizedAlgorithm.name # wrappingKey.algorithm
      THEN WrapOut(Rejected(InvalidAccessError("wrapKey", "algorithm")),
                   normalized \o <<EvReject(TRUE)>>, NoPromise, normalizedAlgorithm)
      ELSE IF "wrapKey" \notin wrappingKey.usages
      THEN WrapOut(Rejected(InvalidAccessError("wrapKey", "usages")),
                   normalized \o <<EvReject(TRUE)>>, NoPromise, normalizedAlgorithm)
      ELSE IF key.algorithm \notin supportedAlgorithms("exportKey")
      THEN WrapOut(Rejected(NotSupportedError("wrapKey", "exportKey")),
                   normalized \o <<EvReject(TRUE)>>, NoPromise, normalizedAlgorithm)
      ELSE IF key.extractable = FALSE
      THEN WrapOut(Rejected(InvalidAccessError("wrapKey", "extractable")),
                   normalized \o <<EvReject(TRUE)>>, NoPromise, normalizedAlgorithm)
      ELSE WrapOut(Pending, normalized \o Inner(export.log),
                   export.promise, normalizedAlgorithm)

\* wrapKey that tests key.extractable before the export capability
wrapKey_ExtractableFirst(format, key, wrappingKey, wrapAlgorithm, out) ==
  LET first == normalize("wrapKey", wrapAlgorithm)
      normalizedAlgorithm ==
        IF IsError(first) THEN normalize("encrypt", wrapAlgorithm) ELSE first
      normalized ==
        IF IsError(first)
        THEN <<EvNormalize("wrapKey", FALSE),
               EvNormalize("encrypt", ~IsError(normalizedAlgorithm))>>
        ELSE <<EvNormalize("wrapKey", TRUE)>>
      export == exportKey(format, key, out)
  IN  IF IsError(normalizedAlgorithm)
      THEN WrapOut(Rejected(normalizedAlgorithm), normalized \o <<EvReject(TRUE)>>,
                   NoPromise, Undefined)
      ELSE IF normalizedAlgorithm.name # wrappingKey.algorithm
      THEN WrapOut(Rejected(InvalidAccessError("wrapKey", "algorithm")),
                   normalized \o <<EvReject(TRUE)>>, NoPromise, normalizedAlgorithm)
      ELSE IF "wrapKey" \notin wrappingKey.usages
      THEN WrapOut(Rejected(InvalidAccessError("wrapKey", "usages")),
                   normalized \o <<EvReject(TRUE)>>, NoPromise, normalizedAlgorithm)
      ELSE IF key.extractable = FALSE
      THEN WrapOut(Rejected(InvalidAccessError("wrapKey", "extractable")),
                   normalized \o <<EvReject(TRUE)>>, NoPromise, normalizedAlgorithm)
      ELSE IF key.algorithm \notin supportedAlgorithms("exportKey")
      THEN WrapOut(Rejected(NotSupportedError("wrapKey", "exportKey")),
                   normalized \o <<EvReject(TRUE)>>, NoPromise, normalizedAlgorithm)
      ELSE WrapOut(Pending, normalized \o Inner(export.log),
                   export.promise, normalizedAlgorithm)

\* SubtleCrypto.wrapKey up to the return of the promise; out is what the
\* provider's exportKey does if called
wrapKey(format, key, wrappingKey, wrapAlgorithm, out) ==
  LET first == normalize("wrapKey", wrapAlgorithm)
      normalizedAlgorithm ==
        IF IsError(first) THEN normalize("encrypt", wrapAlgorithm) ELSE first
      normalized ==
        IF IsError(first)
        THEN <<EvNormalize("wrapKey", FALSE),
               EvNormalize("encrypt", ~IsError(normalizedAlgorithm))>>
        ELSE <<EvNormalize("wrapKey", TRUE)>>
      export == exportKey(format, key, out)
  IN  IF IsError(normalizedAlgorithm)
      THEN WrapOut(Rejected(normalizedAlgorithm), normalized \o <<EvReject(TRUE)>>,
                   NoPromise, Undefined)
      ELSE IF normalizedAlgorithm.name # wrappingKey.algorithm
      THEN WrapOut(Rejected(InvalidAccessError("wrapKey", "algorithm")),
                   normalized \o <<EvReject(TRUE)>>, NoPromise, normalizedAlgorithm)
      ELSE IF "wrapKey" \notin wrappingKey.usages
      THEN WrapOut(Rejected(InvalidAccessError("wrapKey", "usages")),
                   normalized \o <<EvReject(TRUE)>>, NoPromise, normalizedAlgorithm)
      ELSE IF key.algorithm \notin supportedAlgorithms("exportKey")
      THEN WrapOut(Rejected(NotSupportedError("wrapKey", "exportKey")),
                   normalized \o <<EvReject(TRUE)>>, NoPromise, normalizedAlgorithm)
      ELSE IF key.extractable = FALSE
      THEN WrapOut(Rejected(InvalidAccessError("wrapKey", "extractable")),
                   normalized \o <<EvReject(TRUE)>>, NoPromise, normalizedAlgorithm)
      ELSE WrapOut(Pending, normalized \o Inner(export.log),
                   export.promise, normalizedAlgorithm)

\* the bytes handed to the wrapping provider: raw formats pass through, a JWK
\* is JSON.stringify'd and encoded by TextEncoder
Serialize(format, exportedKey) ==
  IF format \in {"raw", "pkcs8", "spki"} THEN exportedKey
  ELSE IF format = "jwk"
  THEN [kind |-> "value", name |-> "bytes", src |-> <<"TextEncoder", "JSON.stringify">>]
  ELSE Undefined

\* the outcome of a promise reaction of wrapKey: the returned promise, the
\* events added to the log and the promise the reaction settles
ThenOut(promise, events, chained) ==
  [promise |-> promise, events |-> events, chained |-> chained]

\* the reaction that prefers the provider's encrypt to its wrapKey
wrapKeyExported_EncryptFirst(format, normalizedAlgorithm, exported, promise, out) ==
  LET bytes == Serialize(format, exported.value)
      method == IF "encrypt" \in Methods(normalizedAlgorithm.name) THEN "encrypt"
                ELSE "wrapKey"
  IN  IF exported.state = "rejected"
      THEN ThenOut(promise, <<>>, Rejected(exported.value))
      ELSE IF method \in Methods(normalizedAlgorithm.name)
      THEN ThenOut(promise, <<EvProvider(method, out, bytes.src[1])>>,
                   IF out = "throw" THEN Rejected(ProviderError(method))
                   ELSE Resolved(ProviderValue(method)))
      ELSE ThenOut(DoReject(promise, NotSupportedError("wrapKey", "capability")),
                   <<EvReject(promise.state = "pending")>>, Resolved(Undefined))

\* the reaction of this.exportKey(format, key).then(exportedKey => ...); out
\* is what the provider's wrapKey / encrypt does if called
wrapKeyExported(format, normalizedAlgorithm, exported, promise, out) ==
  LET bytes == Serialize(format, exported.value)
      method == IF "wrapKey" \in Methods(normalizedAlgorithm.name) THEN "wrapKey"
                ELSE "encrypt"
  IN  IF exported.state = "rejected"
      THEN ThenOut(promise, <<>>, Rejected(exported.value))
      ELSE IF method \in Methods(normalizedAlgorithm.name)
      THEN ThenOut(promise, <<EvProvider(method, out, bytes.src[1])>>,
                   IF out = "throw" THEN Rejected(ProviderError(method))
                   ELSE Resolved(ProviderValue(method)))
      ELSE ThenOut(DoReject(promise, NotSupportedError("wrapKey", "capability")),
                   <<EvReject(promise.state = "pending")>>, Resolved(Undefined))

\* the reaction of .then(resolve)
wrapKeyResolve(chained, promise) ==
  IF chained.state = "resolved"
  THEN ThenOut(DoResolve(promise, chained.value),
               <<EvResolve(promise.state = "pending")>>, chained)
  ELSE ThenOut(promise, <<>>, chained)

(* ------------------ deriveKey, deriveBits, unwrapKey ------------------ *)

\* new Promise(): the Promise constructor called without an executor throws a
\* TypeError ("Promise resolver undefined is not a function")
NewPromiseWithoutExecutor == Throws(Err("TypeError", "Promise", "executor"))

\* SubtleCrypto.deriveKey
deriveKey(algorithm, baseKey, derivedKeyType, extractable, keyUsages) ==
  NewPromiseWithoutExecutor

\* SubtleCrypto.deriveBits
deriveBits(algorithm, baseKey, length) == NewPromiseWithoutExecutor

\* SubtleCrypto.unwrapKey
unwrapKey(format, wrappedKey, unwrappingKey, unwrapAlgorithm, unwrappedKeyAlgorithm, extractable, keyUsages) ==
  NewPromiseWithoutExecutor


(* ------------------------------ the state ----------------------------- *)

VARIABLES
  pc,                   \* "idle", "exported", "chained" (wrapKey's reactions), "done"
  call,                 \* the public call in flight and its arguments
  promise,              \* the promise the call returned
  thrown,               \* the exception the call threw to its caller, if any
  log,                  \* what the call did, in order
  exported,             \* wrapKey: the promise of this.exportKey(format, key)
  chained,              \* wrapKey: the promise of exportKey(...).then(...)
  normalizedAlgorithm,  \* wrapKey: the normalized algorithm the reactions use
  provided              \* generateKey / importKey: what the provider returned, as returned

vars ==
  <<pc, call, promise, thrown, log, exported, chained, normalizedAlgorithm, provided>>

NoCall ==
  [op |-> "-", format |-> "-", algorithm |-> "-", key |-> NoKey, wrappingKey |-> NoKey,
   keyData |-> "-", extractable |-> FALSE, keyUsages |-> <<>>]

Init ==
  /\ pc = "idle"
  /\ call = NoCall
  /\ promise = NoPromise
  /\ thrown = Undefined
  /\ log = <<>>
  /\ exported = NoPromise
  /\ chained = NoPromise
  /\ normalizedAlgorithm = Undefined
  /\ provided = Undefined

\* a call whose outcome o is complete when the call returns
Complete(c, o) ==
  /\ pc' = "done"
  /\ call' = c
  /\ promise' = o.promise
  /\ thrown' = o.thrown
  /\ log' = o.log
  /\ UNCHANGED <<exported, chained, normalizedAlgorithm, provided>>

\* a call of generateKey / importKey: result is what the provider returns if
\* the call gets to call it
CompleteProvided(c, o, result) ==
  /\ pc' = "done"
  /\ call' = c
  /\ promise' = o.promise
  /\ thrown' = o.thrown
  /\ log' = o.log
  /\ provided' = IF \E i \in DOMAIN o.log : o.log[i].e = "provider" /\ o.log[i].ok
                 THEN result ELSE Undefined
  /\ UNCHANGED <<exported, chained, normalizedAlgorithm>>

Encrypt ==
  /\ pc = "idle"
  /\ \E algorithm \in AlgNames, key \in ArgKeys, out \in ProviderOutcomes :
    Complete([NoCall EXCEPT !.op = "encrypt", !.algorithm = algorithm, !.key = key],
             encrypt(algorithm, key, CallerData, out))

Decrypt ==
  /\ pc = "idle"
  /\ \E algorithm \in AlgNames, key \in ArgKeys, out \in ProviderOutcomes :
    Complete([NoCall EXCEPT !.op = "decrypt", !.algorithm = algorithm, !.key = key],
             decrypt(algorithm, key, CallerData, out))

Sign ==
  /\ pc = "idle"
  /\ \E algorithm \in AlgNames, key \in ArgKeys, out \in ProviderOutcomes :
    Complete([NoCall EXCEPT !.op = "sign", !.algorithm = algorithm, !.key = key],
             sign(algorithm, key, CallerData, out))

Verify ==
  /\ pc = "idle"
  /\ \E algorithm \in AlgNames, key \in ArgKeys, out \in ProviderOutcomes :
    Complete([NoCall EXCEPT !.op = "verify", !.algorithm = algorithm, !.key = key],
             verify(algorithm, key, CallerData, CallerData, out))

Digest ==
  /\ pc = "idle"
  /\ \E algorithm \in AlgNames, out \in ProviderOutcomes :
    Complete([NoCall EXCEPT !.op = "digest", !.algorithm = algorithm],
             digest(algorithm, CallerData, out))

GenerateKey ==
  /\ pc = "idle"
  /\ \E algorithm \in AlgNames, extractable \in BOOLEAN, keyUsages \in KeyUsageArrays :
    \E result \in GenerateResults(algorithm, extractable, keyUsages) :
      CompleteProvided(
        [NoCall EXCEPT !.op = "generateKey", !.algorithm = algorithm,
                       !.extractable = extractable, !.keyUsages = keyUsages],
        generateKey(algorithm, extractable, keyUsages, result), result)

ImportKey ==
  /\ pc = "idle"
  /\ \E format \in Formats, keyData \in KeyDataShapes, algorithm \in AlgNames,
     extractable \in BOOLEAN, keyUsages \in KeyUsageArrays, coerce \in Coercions :
    \E result \in ImportResults(algorithm, keyUsages) :
      CompleteProvided(
        [NoCall EXCEPT !.op = "importKey", !.format = format,
                       !.keyData = keyData, !.algorithm = algorithm,
                       !.extractable = extractable, !.keyUsages = keyUsages],
        importKey(format, keyData, algorithm, extractable, keyUsages, coerce, result),
        result)

ExportKey ==
  /\ pc = "idle"
  /\ \E format \in Formats, key \in KeysToExport, out \in ProviderOutcomes :
    Complete([NoCall EXCEPT !.op = "exportKey", !.format = format, !.key = key],
             exportKey(format, key, out))

DeriveKey ==
  /\ pc = "idle"
  /\ \E algorithm \in AlgNames, baseKey \in ArgKeys :
    Complete([NoCall EXCEPT !.op = "deriveKey", !.algorithm = algorithm, !.key = baseKey],
             deriveKey(algorithm, baseKey, algorithm, TRUE, <<>>))

DeriveBits ==
  /\ pc = "idle"
  /\ \E algorithm \in AlgNames, baseKey \in ArgKeys :
    Complete([NoCall EXCEPT !.op = "deriveBits", !.algorithm = algorithm, !.key = baseKey],
             deriveBits(algorithm, baseKey, 0))

UnwrapKey ==
  /\ pc = "idle"
  /\ \E format \in Formats, unwrappingKey \in ArgKeys, unwrapAlgorithm \in AlgNames :
    Complete([NoCall EXCEPT !.op = "unwrapKey", !.format = format,
                            !.algorithm = unwrapAlgorithm, !.key = unwrappingKey],
             unwrapKey(format, CallerData, unwrappingKey, unwrapAlgorithm,
                       unwrapAlgorithm, TRUE, <<>>))

\* wrapKey is called and returns its promise; if the checks passed, the
\* reaction on the exported key is queued
WrapKey ==
  /\ pc = "idle"
  /\ \E format \in Formats, key \in KeysToExport, wrappingKey \in ArgKeys,
        wrapAlgorithm \in AlgNames, out \in ProviderOutcomes :
       LET o == wrapKey(format, key, wrappingKey, wrapAlgorithm, out) IN
         /\ call' = [NoCall EXCEPT !.op = "wrapKey", !.format = format, !.key = key,
                                   !.wrappingKey = wrappingKey,
                                   !.algorithm = wrapAlgorithm]
         /\ promise' = o.promise
         /\ thrown' = o.thrown
         /\ log' = o.log
         /\ exported' = o.exported
         /\ normalizedAlgorithm' = o.normalizedAlgorithm
         /\ pc' = IF o.exported.state = "none" THEN "done" ELSE "exported"
  /\ UNCHANGED <<chained, provided>>

\* the first reaction of wrapKey runs
WrapKeyExported ==
  /\ pc = "exported"
  /\ \E out \in ProviderOutcomes :
       LET o == wrapKeyExported(call.format, normalizedAlgorithm, exported, promise, out)
       IN  /\ promise' = o.promise
           /\ log' = log \o o.events
           /\ chained' = o.chained
  /\ pc' = "chained"
  /\ UNCHANGED <<call, thrown, exported, normalizedAlgorithm, provided>>

\* the second reaction of wrapKey runs; nothing is queued after it
WrapKeyResolve ==
  /\ pc = "chained"
  /\ LET o == wrapKeyResolve(chained, promise)
     IN  /\ promise' = o.promise
         /\ log' = log \o o.events
  /\ pc' = "done"
  /\ UNCHANGED <<call, thrown, exported, chained, normalizedAlgorithm, provided>>

\* the caller has the outcome; the next call may start
Return ==
  /\ pc = "done"
  /\ pc' = "idle"
  /\ call' = NoCall
  /\ promise' = NoPromise
  /\ thrown' = Undefined
  /\ log' = <<>>
  /\ exported' = NoPromise
  /\ chained' = NoPromise
  /\ normalizedAlgorithm' = Undefined
  /\ provided' = Undefined

Next ==
  \/ Encrypt
  \/ Decrypt
  \/ Sign
  \/ Verify
  \/ Digest
  \/ GenerateKey
  \/ DeriveKey
  \/ DeriveBits
  \/ ImportKey
  \/ ExportKey
  \/ WrapKey
  \/ WrapKeyExported
  \/ WrapKeyResolve
  \/ UnwrapKey
  \/ Return

Spec == Init /\ [][Next]_vars

(* ------------------------- reading the state -------------------------- *)

\* the events of the call that are calls of provider methods
ProviderCalls == {i \in DOMAIN log : log[i].e = "provider"}

NoProviderCall == ProviderCalls = {}

ProviderCalled(method) == \E i \in ProviderCalls : log[i].what = method

\* the returned promise is rejected with an error of the class
RejectedWith(name) == promise.state = "rejected" /\ promise.value.name = name

\* the call in flight is op and has run to its end
Done(op) == pc = "done" /\ call.op = op

CipherOps == {"encrypt", "decrypt", "sign", "verify"}

\* the algorithm of the call is registered for op
Registered(op) == call.algorithm \in supportedAlgorithms(op)

(* ------------------------------ claims -------------------------------- *)

\* C1: in encrypt, decrypt, sign and verify, whenever the normalized algorithm's
\* name differs from key.algorithm.name the promise is rejected with
\* InvalidAccessError and no provider method was called
C1_AlgorithmMismatchRejects ==
  \A op \in CipherOps :
    (Done(op) /\ Registered(op) /\ call.algorithm # call.key.algorithm)
      => (RejectedWith("InvalidAccessError") /\ NoProviderCall)

\* C1 witness: a verify whose key has the verify usage but another algorithm
C1_Witness ==
  /\ Done("verify") /\ Registered("verify")
  /\ call.algorithm # call.key.algorithm
  /\ "verify" \in call.key.usages
  /\ RejectedWith("InvalidAccessError")

\* C2 as stated: in encrypt, decrypt, sign and verify, a key whose usages lack
\* the operation's name makes the promise reject with InvalidAccessError, and
\* the provider is not called
C2_MissingUsageRejects ==
  \A op \in CipherOps :
    (Done(op) /\ op \notin call.key.usages)
      => (RejectedWith("InvalidAccessError") /\ NoProviderCall)

\* C2 amended: a key whose usages lack the operation's name makes the promise
\* reject without a provider call: with InvalidAccessError when the algorithm
\* is registered for the operation, with the NotSupportedError of the
\* normalization when it is not; the provider is called only for keys whose
\* usages contain the name
C2_MissingUsageRejectsWhenSupported ==
  \A op \in CipherOps :
    /\ (Done(op) /\ op \notin call.key.usages)
         => (promise.state = "rejected" /\ NoProviderCall)
    /\ (Done(op) /\ op \notin call.key.usages)
         => IF Registered(op) THEN RejectedWith("InvalidAccessError")
            ELSE promise = Rejected(normalize(op, call.algorithm))
    /\ (Done(op) /\ ~NoProviderCall) => op \in call.key.usages

\* C2 witness: a decrypt with the key's own algorithm and a key without the
\* decrypt usage
C2_Witness ==
  /\ Done("decrypt") /\ Registered("decrypt")
  /\ call.algorithm = call.key.algorithm
  /\ "decrypt" \notin call.key.usages
  /\ RejectedWith("InvalidAccessError")

\* the operations that normalize the caller's algorithm for their own name
NormalizingOps ==
  {"encrypt", "decrypt", "sign", "verify", "digest", "generateKey", "importKey"}

\* C3 as stated: an operation whose (operation, algorithm) pair is not
\* registered rejects with NotSupportedError and calls no provider
C3_UnregisteredRejects ==
  /\ \A op \in NormalizingOps \cup {"wrapKey"} :
       (Done(op) /\ ~Registered(op))
         => (RejectedWith("NotSupportedError") /\ NoProviderCall)
  /\ (Done("exportKey") /\ call.key.algorithm \notin supportedAlgorithms("exportKey"))
       => (RejectedWith("NotSupportedError") /\ NoProviderCall)

\* C3 amended: as stated for every operation but wrapKey; wrapKey rejects with
\* NotSupportedError, calling no provider, when the algorithm is registered
\* neither for wrapKey nor for encrypt
C3_UnregisteredRejectsWrapFallback ==
  /\ \A op \in NormalizingOps :
       (Done(op) /\ ~Registered(op))
         => (RejectedWith("NotSupportedError") /\ NoProviderCall)
  /\ (Done("exportKey") /\ call.key.algorithm \notin supportedAlgorithms("exportKey"))
       => (RejectedWith("NotSupportedError") /\ NoProviderCall)
  /\ (Done("wrapKey") /\ ~Registered("wrapKey") /\ ~Registered("encrypt"))
       => (RejectedWith("NotSupportedError") /\ NoProviderCall)

\* C3 witness: an exportKey of an extractable key whose algorithm has no
\* registered export
C3_Witness ==
  /\ Done("exportKey")
  /\ call.key.algorithm \notin supportedAlgorithms("exportKey")
  /\ call.key.extractable
  /\ RejectedWith("NotSupportedError")

\* the key a resolved generateKey / importKey hands to the caller whose usages
\* the library answers for: the key itself, or the private key of a pair
RestrictedKeys ==
  IF promise.state # "resolved" THEN {}
  ELSE IF promise.value.kind = "CryptoKey"
  THEN {k \in {promise.value.key} : k.type \in {"secret", "private"}}
  ELSE IF promise.value.kind = "CryptoKeyPair" THEN {promise.value.privateKey}
  ELSE {}

\* C4: a generateKey or importKey that produces a secret or private key either
\* resolves with a key whose usages are not empty or rejects; no resolved
\* secret or private key has empty usages
C4_NoRestrictedKeyWithoutUsages ==
  (Done("generateKey") \/ Done("importKey"))
    => \A k \in RestrictedKeys : ~emptyUsages(k)

\* C5 as stated: exportKey rejects with InvalidAccessError for every key that
\* is not extractable, whether or not its algorithm has a registered export
C5_NonExtractableIsAccessViolation ==
  (Done("exportKey") /\ call.key.extractable = FALSE)
    => RejectedWith("InvalidAccessError")

\* C5 amended: exportKey rejects for every key that is not extractable and
\* never calls the provider's export for it; the error is InvalidAccessError
\* when the key's algorithm has a registered export and NotSupportedError
\* when it has none
C5_NonExtractableRejects ==
  (Done("exportKey") /\ call.key.extractable = FALSE)
    => /\ NoProviderCall
       /\ IF call.key.algorithm \in supportedAlgorithms("exportKey")
          THEN RejectedWith("InvalidAccessError")
          ELSE RejectedWith("NotSupportedError")

\* C5 witness: an exportKey of a key that is not extractable and whose
\* algorithm has a registered export
C5_Witness ==
  /\ Done("exportKey")
  /\ call.key.extractable = FALSE
  /\ call.key.algorithm \in supportedAlgorithms("exportKey")
  /\ RejectedWith("InvalidAccessError")

\* C6: once a call has run to its end, if a provider method it called threw,
\* the returned promise is rejected with the error the provider threw
C6_ProviderErrorRejects ==
  \A i \in ProviderCalls :
    (pc = "done" /\ ~log[i].ok) => promise = Rejected(ProviderError(log[i].what))

\* the four checks of wrapKey, on the arguments of the call in flight
WrapChecksPass ==
  /\ normalizedAlgorithm.kind = "algorithm"
  /\ normalizedAlgorithm.name = call.wrappingKey.algorithm
  /\ "wrapKey" \in call.wrappingKey.usages
  /\ call.key.algorithm \in supportedAlgorithms("exportKey")
  /\ call.key.extractable # FALSE

Normalizations == SelectSeq(log, LAMBDA ev : ev.e = "normalize")

InvalidJwk == call.format = "jwk" /\ call.keyData \in {"bytes", "badObject"}

\* C9 as stated: importKey with the jwk format and key data that is no JWK
\* rejects with TypeError and never calls the provider's importKey
C9_InvalidJwkIsMalformedInput ==
  (Done("importKey") /\ InvalidJwk) => (RejectedWith("TypeError") /\ NoProviderCall)

\* C9 amended: importKey with the jwk format and key data that is no JWK
\* never calls the provider's importKey and rejects: with TypeError when the
\* algorithm is registered for importKey, with the NotSupportedError of the
\* normalization when it is not
C9_InvalidJwkRejects ==
  (Done("importKey") /\ InvalidJwk)
    => /\ NoProviderCall
       /\ IF Registered("importKey") THEN RejectedWith("TypeError")
          ELSE promise = Rejected(normalize("importKey", call.algorithm))

\* C9 witness: an importKey of a registered algorithm with the jwk format and
\* an object that is no JWK
C9_Witness ==
  /\ Done("importKey") /\ Registered("importKey")
  /\ call.format = "jwk" /\ call.keyData = "badObject"
  /\ RejectedWith("TypeError")

\* C10: unwrapKey, deriveKey and deriveBits return a promise that stays
\* pending, and call no provider
C10_StubsReturnPendingPromise ==
  \A op \in {"unwrapKey", "deriveKey", "deriveBits"} :
    Done(op) => (promise.state = "pending" /\ thrown = Undefined /\ NoProviderCall)

\* C11: every public operation returns a promise and never throws to its
\* caller: when a call has run to its end nothing was thrown synchronously, a
\* promise was returned, and a failure shows as a rejection of that promise
C11_NeverThrowsSynchronously ==
  pc = "done" =>
    /\ thrown = Undefined
    /\ promise.state \in {"pending", "resolved", "rejected"}

\* the events of the call that assign a field of a key
Assignments(field) == {i \in DOMAIN log : log[i].e = "assign" /\ log[i].what = field}

\* the events of the call that settle the returned promise, effective or not
Settlements ==
  {i \in DOMAIN log : log[i].e \in {"resolve", "reject"} /\ log[i].what = "returned"}

\* C12: when importKey resolves, the resolved key's extractable is the caller's
\* argument and its usages are the normalized keyUsages, whatever the provider
\* had put there; the rest of the key is the provider's; each of the two fields
\* was assigned exactly once and both assignments precede the resolve
C12_ImportOverridesProviderFields ==
  (Done("importKey") /\ promise.state = "resolved") =>
    /\ promise.value.kind = "CryptoKey"
    /\ promise.value.key.extractable = call.extractable
    /\ promise.value.key.hasUsages
    /\ promise.value.key.usages = normalizeUsages(call.keyUsages)
    /\ provided.kind = "CryptoKey"
    /\ promise.value.key.type = provided.key.type
    /\ promise.value.key.algorithm = provided.key.algorithm
    /\ Cardinality(Assignments("extractable")) = 1
    /\ Cardinality(Assignments("usages")) = 1
    /\ \A i \in Assignments("extractable") \cup Assignments("usages") :
         \A j \in Settlements : i < j

\* C12 happens: importKey resolves a key on which the provider had set another
\* extractable and other usages than the caller asked for, and the caller's
\* array holds an unrecognized entry
C12_Witness ==
  /\ Done("importKey")
  /\ promise.state = "resolved"
  /\ provided.kind = "CryptoKey"
  /\ provided.key.extractable # call.extractable
  /\ provided.key.usages = {"sign"}
  /\ call.keyUsages = <<"bogus", "encrypt">>
  /\ promise.value.key.usages = {"encrypt"}

\* the provider methods the wrap algorithm of the call in flight has
WrapMethods == Methods(normalizedAlgorithm.name)

\* C13: in wrapKey, once the key is exported: a provider with a wrapKey method
\* has only that method called; one without it but with encrypt has encrypt
\* called; with neither, the returned promise is rejected with
\* NotSupportedError and no method is called. The returned promise is settled
\* at most once and is never resolved when neither method exists
C13_WrapDispatch ==
  (call.op = "wrapKey" /\ exported.state = "resolved") =>
    /\ Cardinality({i \in Settlements : log[i].ok}) <= 1
    /\ (WrapMethods \cap {"wrapKey", "encrypt"} = {}) => promise.state # "resolved"
    /\ pc = "done" =>
         /\ "wrapKey" \in WrapMethods =>
              ProviderCalled("wrapKey") /\ ~ProviderCalled("encrypt")
         /\ ("wrapKey" \notin WrapMethods /\ "encrypt" \in WrapMethods) =>
              ProviderCalled("encrypt") /\ ~ProviderCalled("wrapKey")
         /\ (WrapMethods \cap {"wrapKey", "encrypt"} = {}) =>
              /\ promise = Rejected(NotSupportedError("wrapKey", "capability"))
              /\ ~ProviderCalled("wrapKey")
              /\ ~ProviderCalled("encrypt")

\* C13 happens: the key was exported, the wrapping algorithm's provider has
\* neither method, the promise is rejected and the later resolve had no effect
C13_Witness ==
  /\ Done("wrapKey")
  /\ exported.state = "resolved"
  /\ WrapMethods \cap {"wrapKey", "encrypt"} = {}
  /\ RejectedWith("NotSupportedError")
  /\ \E i \in Settlements : log[i].e = "resolve" /\ ~log[i].ok

\* C14: wrapKey, once the algorithm is normalized, rejects with the error of
\* the first check that fails, in the order: algorithm mismatch
\* (InvalidAccessError), wrapping key without 'wrapKey' usage
\* (InvalidAccessError), key algorithm without export (NotSupportedError), key
\* not extractable (InvalidAccessError)
C14_WrapCheckOrder ==
  (call.op = "wrapKey" /\ normalizedAlgorithm.kind = "algorithm") =>
    IF normalizedAlgorithm.name # call.wrappingKey.algorithm
    THEN promise = Rejected(InvalidAccessError("wrapKey", "algorithm"))
    ELSE IF "wrapKey" \notin call.wrappingKey.usages
    THEN promise = Rejected(InvalidAccessError("wrapKey", "usages"))
    ELSE IF call.key.algorithm \notin supportedAlgorithms("exportKey")
    THEN promise = Rejected(NotSupportedError("wrapKey", "exportKey"))
    ELSE IF call.key.extractable = FALSE
    THEN promise = Rejected(InvalidAccessError("wrapKey", "extractable"))
    ELSE exported.state # "none"

\* C14 happens: a key that is not extractable and whose algorithm has no export
\* is rejected with NotSupportedError
C14_Witness ==
  /\ Done("wrapKey")
  /\ normalizedAlgorithm.kind = "algorithm"
  /\ call.key.extractable = FALSE
  /\ call.key.algorithm \notin supportedAlgorithms("exportKey")
  /\ RejectedWith("NotSupportedError")

\* C15: encrypt, decrypt, sign and verify stop at the first failing check: an
\* unsupported algorithm gives the normalization's error even when the key
\* mismatches or lacks the usage; a supported algorithm whose name differs from
\* the key's gives the mismatch error even when the usage is missing too
C15_CipherCheckOrder ==
  \A op \in CipherOps :
    Done(op) =>
      /\ ~Registered(op) => promise = Rejected(NotSupportedError("normalize", op))
      /\ (Registered(op) /\ call.algorithm # call.key.algorithm) =>
           promise = Rejected(InvalidAccessError(op, "algorithm"))

\* C15 happens: encrypt with a supported algorithm and a key of another
\* algorithm that lacks 'encrypt' is rejected for the mismatch
C15_Witness ==
  /\ Done("encrypt")
  /\ Registered("encrypt")
  /\ call.algorithm # call.key.algorithm
  /\ "encrypt" \notin call.key.usages
  /\ promise = Rejected(InvalidAccessError("encrypt", "algorithm"))

\* C16: when the provider's generateKey returns a key pair, the promise is
\* rejected with EmptyUsageError exactly when privateKey.usages is empty or
\* missing; otherwise it is resolved with the pair, whatever the public key's
\* usages are
C16_KeyPairPrivateUsages ==
  (Done("generateKey") /\ provided.kind = "CryptoKeyPair") =>
    IF emptyUsages(provided.privateKey)
    THEN promise = Rejected(EmptyUsageError("generateKey"))
    ELSE promise = Resolved(provided)

\* C16 happens: a pair whose private key has usages and whose public key has
\* none is resolved
C16_Witness ==
  /\ Done("generateKey")
  /\ provided.kind = "CryptoKeyPair"
  /\ ~emptyUsages(provided.privateKey)
  /\ emptyUsages(provided.publicKey)
  /\ promise.state = "resolved"

\* the formats whose key data are bytes
ByteFormats == {"raw", "pkcs8", "spki"}

\* C17, as stated: importKey in format raw, pkcs8 or spki with key data that is
\* a JsonWebKey is rejected with TypeError and the provider is never called;
\* with bytes, what the provider receives is a copy
C17_JwkDataInByteFormat ==
  (Done("importKey") /\ call.format \in ByteFormats) =>
    /\ call.keyData = "JsonWebKey" => (RejectedWith("TypeError") /\ NoProviderCall)
    /\ \A i \in ProviderCalls : call.keyData = "bytes" /\ log[i].arg = "copy"

\* C17, amended: the rejection is the TypeError when the algorithm is
\* registered for importKey, and the normalization's NotSupportedError when it
\* is not; the provider is never called; with bytes it receives a copy
C17_JwkDataInByteFormatWhenSupported ==
  (Done("importKey") /\ call.format \in ByteFormats) =>
    /\ call.keyData = "JsonWebKey" =>
         /\ NoProviderCall
         /\ promise = IF Registered("importKey")
                      THEN Rejected(MalformedInputError("importKey", "format"))
                      ELSE Rejected(NotSupportedError("normalize", "importKey"))
    /\ \A i \in ProviderCalls : call.keyData = "bytes" /\ log[i].arg = "copy"

\* C17 happens: a raw import of a JsonWebKey under a registered algorithm is
\* rejected with TypeError without a provider call
C17_Witness ==
  /\ Done("importKey")
  /\ call.format = "raw"
  /\ call.keyData = "JsonWebKey"
  /\ Registered("importKey")
  /\ RejectedWith("TypeError")
  /\ NoProviderCall

\* C18: in exportKey and wrapKey no provider method (export, wrapKey, encrypt)
\* is called for a key whose extractable is false
C18_NonExtractableNeverLeaves ==
  (call.op \in {"exportKey", "wrapKey"} /\ ~NoProviderCall) =>
    call.key.extractable = TRUE

\* C18 happens: wrapKey of an extractable key reaches the provider's export
\* and its wrapKey
C18_Witness ==
  /\ Done("wrapKey")
  /\ call.key.extractable = TRUE
  /\ ProviderCalled("exportKey")
  /\ ProviderCalled("wrapKey")

\* the events of the call that assign a field of a key
KeyAssignments == {i \in DOMAIN log : log[i].e = "assign"}

\* C19: no operation but importKey assigns a field of a key, importKey assigns
\* only on the path that resolves, and a call that ends rejected has assigned
\* nothing
C19_FailuresLeaveKeysAlone ==
  /\ call.op # "importKey" => KeyAssignments = {}
  /\ KeyAssignments # {} => (Done("importKey") /\ promise.state = "resolved")
  /\ promise.state = "rejected" => KeyAssignments = {}

\* C19 happens: importKey rejects after the provider built a key, and the key
\* was not assigned to
C19_Witness ==
  /\ Done("importKey")
  /\ provided.kind = "CryptoKey"
  /\ RejectedWith("SyntaxError")
  /\ KeyAssignments = {}

====
